---- MODULE Spec2Model ----
(***************************************************************************)
(* Model of tickets.go of the build-baron plugin: the fileTicket HTTP      *)
(* handler and the pure functions it is built from (cleanTestName,         *)
(* historyURL, getSummary, getDescription).                                *)
(*                                                                         *)
(* Representation of Go values:                                            *)
(*   - a Go string whose characters the code inspects (a test path) is a   *)
(*     sequence of one-character strings; Str flattens it to a TLA+ string *)
(*     where the code formats it with %v or {{.}};                         *)
(*   - any other Go string is a TLA+ string;                               *)
(*   - a pointer or an error is Nil (<<>>) or a one-element sequence;      *)
(*   - a rendered text is the sequence of its newline-terminated lines.    *)
(***************************************************************************)
EXTENDS Integers, Sequences, FiniteSets, TLC

VARIABLES pc, input, decodeErr, u, t, err, tests, request, response, log, call

handlerVars == <<pc, input, decodeErr, u, t, err, tests, request, response, log>>
vars == <<pc, input, decodeErr, u, t, err, tests, request, response, log, call>>

(***************************************************************************)
(* Bounds of the model.                                                    *)
(***************************************************************************)
MaxPathLen == 4
MaxTests == 5
MaxResults == 3
MaxSelected == 2

(***************************************************************************)
(* Go values.                                                              *)
(***************************************************************************)
Nil == <<>>
Ptr(x) == <<x>>
Deref(p) == p[1]

Range(s) == {s[i] : i \in 1..Len(s)}

SeqsUpTo(S, n) == UNION {[1..k -> S] : k \in 0..n}

RECURSIVE Str(_)
Str(s) == IF s = <<>> THEN "" ELSE Head(s) \o Str(Tail(s))

\* strings.LastIndex for a one-character separator: Go's 0-based index, or -1
LastIndex(s, sep) ==
    LET hits == {i \in 1..Len(s) : s[i] = sep}
    IN  IF hits = {} THEN -1
        ELSE (CHOOSE i \in hits : \A j \in hits : j <= i) - 1

\* Go's s[:n] and s[n:]
SliceTo(s, n) == SubSeq(s, 1, n)
SliceFrom(s, n) == SubSeq(s, n + 1, Len(s))

\* strings.Join
RECURSIVE Join(_, _)
Join(elems, sep) ==
    IF elems = <<>> THEN ""
    ELSE IF Len(elems) = 1 THEN elems[1]
    ELSE elems[1] \o sep \o Join(Tail(elems), sep)

(***************************************************************************)
(* Constants of tickets.go.                                                *)
(***************************************************************************)
FailingTasksField == "customfield_12950"
UIRoot == "https://evergreen.mongodb.com"

StatusOK == 200
StatusBadRequest == 400
StatusUnauthorized == 401
StatusNotFound == 404
StatusInternalServerError == 500

(***************************************************************************)
(* cleanTestName                                                           *)
(***************************************************************************)
\* faulty variant: a trailing delimiter is removed without trying again
RECURSIVE cleanTestNameNoRetry(_)
cleanTestNameNoRetry(path) ==
    LET unixIdx == LastIndex(path, "/")
        windowsIdx == LastIndex(path, "\\")
    IN  IF unixIdx # -1
        THEN IF unixIdx = Len(path) - 1
             THEN SliceTo(path, Len(path) - 1)
             ELSE SliceFrom(path, unixIdx + 1)
        ELSE IF windowsIdx # -1
        THEN IF windowsIdx = Len(path) - 1
             THEN SliceTo(path, Len(path) - 1)
             ELSE SliceFrom(path, windowsIdx + 1)
        ELSE path

\* faulty variant: the backslash branch keeps the delimiter it found
RECURSIVE cleanTestNameKeepsBackslash(_)
cleanTestNameKeepsBackslash(path) ==
    LET unixIdx == LastIndex(path, "/")
        windowsIdx == LastIndex(path, "\\")
    IN  IF unixIdx # -1
        THEN IF unixIdx = Len(path) - 1
             THEN cleanTestNameKeepsBackslash(SliceTo(path, Len(path) - 1))
             ELSE SliceFrom(path, unixIdx + 1)
        ELSE IF windowsIdx # -1
        THEN IF windowsIdx = Len(path) - 1
             THEN cleanTestNameKeepsBackslash(SliceTo(path, Len(path) - 1))
             ELSE SliceFrom(path, windowsIdx)
        ELSE path

RECURSIVE cleanTestName(_)
cleanTestName(path) ==
    LET unixIdx == LastIndex(path, "/")
        windowsIdx == LastIndex(path, "\\")
    IN  IF unixIdx # -1
        THEN IF unixIdx = Len(path) - 1
             THEN cleanTestName(SliceTo(path, Len(path) - 1))
             ELSE SliceFrom(path, unixIdx + 1)
        ELSE IF windowsIdx # -1
        THEN IF windowsIdx = Len(path) - 1
             THEN cleanTestName(SliceTo(path, Len(path) - 1))
             ELSE SliceFrom(path, windowsIdx + 1)
        ELSE path

(***************************************************************************)
(* historyURL                                                              *)
(***************************************************************************)
\* faulty variant: the fragment is given the task name instead of the test name
historyURLWrongFragment(task, testName) ==
    UIRoot \o "/task_history/" \o task.Project \o "/" \o task.DisplayName
           \o "#" \o task.DisplayName \o "=fail"

historyURL(task, testName) ==
    UIRoot \o "/task_history/" \o task.Project \o "/" \o task.DisplayName
           \o "#" \o Str(testName) \o "=fail"

(***************************************************************************)
(* getSummary                                                              *)
(***************************************************************************)
\* faulty variant: the squish threshold is off by one (>= 4 instead of > 4)
getSummarySquishAtFour(taskName, failures) ==
    IF Len(failures) = 0 THEN taskName \o " failure"
    ELSE IF Len(failures) >= 4 THEN taskName \o " failures"
    ELSE Join([i \in 1..Len(failures) |-> Str(failures[i].Name)], ", ")

getSummary(taskName, failures) ==
    IF Len(failures) = 0 THEN taskName \o " failure"
    ELSE IF Len(failures) > 4 THEN taskName \o " failures"
    ELSE Join([i \in 1..Len(failures) |-> Str(failures[i].Name)], ", ")

(***************************************************************************)
(* DescriptionTemplate and getDescription                                  *)
(***************************************************************************)
\* line 22 of the template
HeadingLine(task) ==
    "h2. [" \o task.DisplayName \o " failed on " \o task.BuildVariant
            \o "|" \o UIRoot \o "/task/" \o task.Id \o "]"

\* line 24 of the template
TestLine(f) ==
    "*" \o Str(f.Name) \o "* - [Logs|" \o f.URL
        \o "] | [History|" \o f.HistoryURL \o "]"

\* line 30 of the template
AttributionLine(userId) == "~BF Ticket Generated by [~" \o userId \o "]~"

\* faulty variant: the range stops before the last element
RECURSIVE RangeTestsDropsLast(_)
RangeTestsDropsLast(failures) ==
    IF Len(failures) <= 1 THEN <<>>
    ELSE <<TestLine(Head(failures)), "">> \o RangeTestsDropsLast(Tail(failures))

\* {{range .Tests}} ... {{end}}: the body is one line and one empty line
RECURSIVE RangeTests(_)
RangeTests(failures) ==
    IF failures = <<>> THEN <<>>
    ELSE <<TestLine(Head(failures)), "">> \o RangeTests(Tail(failures))

\* DescriptionTemplate.Execute(buf, args) when it succeeds: the text written
Execute(args) ==
    <<"", HeadingLine(args.Task), "">>
        \o RangeTests(args.Tests)
        \o <<"", "", "", "", AttributionLine(args.UserId)>>

\* execErr is what the template engine's Execute returns: Nil or an error
getDescription(task, userId, failures, execErr) ==
    LET args == [Task |-> task, UserId |-> userId, Tests |-> failures]
    IN  IF execErr # Nil
        THEN [desc |-> <<>>, err |-> execErr]
        ELSE [desc |-> Execute(args), err |-> Nil]

(***************************************************************************)
(* Input domains.                                                          *)
(***************************************************************************)
Alphabet == {"a", "b", "/", "\\"}
Paths == SeqsUpTo(Alphabet, MaxPathLen)

TaskRecords ==
    [Id : {"1", "2"}, DisplayName : {"T", "U"}, BuildVariant : {"V"},
     Project : {"P", "Q"}, TestResults : {<<>>}]

UserIds == {"alice", "bob"}

Failures ==
    {[Name |-> <<"x">>, URL |-> "u1", HistoryURL |-> "h1"],
     [Name |-> <<"y">>, URL |-> "u2", HistoryURL |-> "h2"]}
FailureLists == SeqsUpTo(Failures, MaxTests)

ExecErrors == {Nil, Ptr("template: Desc: can't evaluate field")}

(***************************************************************************)
(* The handler's state before a request, and the state of no call.         *)
(***************************************************************************)
NoInput == [TaskId |-> "", TestIds |-> <<>>]
NoCall == [fn |-> "none", returned |-> FALSE]

HandlerInit ==
    /\ pc = "decode"
    /\ input = NoInput
    /\ decodeErr = FALSE
    /\ u = Nil
    /\ t = Nil
    /\ err = Nil
    /\ tests = <<>>
    /\ request = <<>>
    /\ response = <<>>
    /\ log = <<>>

(***************************************************************************)
(* The pure functions, each applied to an input drawn by Init.             *)
(***************************************************************************)
InitCleanTestName ==
    /\ HandlerInit
    /\ \E p \in Paths :
          call = [fn |-> "cleanTestName", returned |-> FALSE, path |-> p, ret |-> <<>>]

ApplyCleanTestName ==
    /\ call.fn = "cleanTestName"
    /\ ~call.returned
    /\ call' = [call EXCEPT !.returned = TRUE, !.ret = cleanTestName(call.path)]
    /\ UNCHANGED handlerVars

SpecCleanTestName == InitCleanTestName /\ [][ApplyCleanTestName]_vars

InitHistoryURL ==
    /\ HandlerInit
    /\ \E task \in TaskRecords, n \in Paths :
          call = [fn |-> "historyURL", returned |-> FALSE,
                  task |-> task, testName |-> n, ret |-> ""]

ApplyHistoryURL ==
    /\ call.fn = "historyURL"
    /\ ~call.returned
    /\ call' = [call EXCEPT !.returned = TRUE,
                            !.ret = historyURL(call.task, call.testName)]
    /\ UNCHANGED handlerVars

SpecHistoryURL == InitHistoryURL /\ [][ApplyHistoryURL]_vars

InitGetSummary ==
    /\ HandlerInit
    /\ \E name \in {"T", "U"}, fs \in FailureLists :
          call = [fn |-> "getSummary", returned |-> FALSE,
                  taskName |-> name, tests |-> fs, ret |-> ""]

ApplyGetSummary ==
    /\ call.fn = "getSummary"
    /\ ~call.returned
    /\ call' = [call EXCEPT !.returned = TRUE,
                            !.ret = getSummary(call.taskName, call.tests)]
    /\ UNCHANGED handlerVars

SpecGetSummary == InitGetSummary /\ [][ApplyGetSummary]_vars

InitGetDescription ==
    /\ HandlerInit
    /\ \E task \in TaskRecords, id \in UserIds, fs \in FailureLists, e \in ExecErrors :
          call = [fn |-> "getDescription", returned |-> FALSE,
                  task |-> task, userId |-> id, tests |-> fs, execErr |-> e,
                  ret |-> [desc |-> <<>>, err |-> Nil]]

ApplyGetDescription ==
    /\ call.fn = "getDescription"
    /\ ~call.returned
    /\ call' = [call EXCEPT !.returned = TRUE,
                            !.ret = getDescription(call.task, call.userId,
                                                   call.tests, call.execErr)]
    /\ UNCHANGED handlerVars

SpecGetDescription == InitGetDescription /\ [][ApplyGetDescription]_vars

(***************************************************************************)
(* Claims about the pure functions.                                        *)
(***************************************************************************)
Delimiters == {"/", "\\"}
Mixed(p) == "/" \in Range(p) /\ "\\" \in Range(p)
Returned(fn) == call.fn = fn /\ call.returned

\* the last maximal delimiter-free run of p that is not empty, <<>> if none
LastSegment(p) ==
    LET solid == {i \in 1..Len(p) : p[i] \notin Delimiters}
    IN  IF solid = {} THEN <<>>
        ELSE LET e == CHOOSE i \in solid : \A j \in solid : j <= i
                 cuts == {i \in 1..e : p[i] \in Delimiters}
                 b == IF cuts = {} THEN 0
                      ELSE CHOOSE i \in cuts : \A j \in cuts : j <= i
             IN  SubSeq(p, b + 1, e)

\* C3 as stated: cleanTestName is idempotent on every input string,
\* mixed-delimiter inputs included.
C3_Idempotent ==
    Returned("cleanTestName") => cleanTestName(call.ret) = call.ret

\* C3 amended: cleanTestName(cleanTestName(s)) = cleanTestName(s) for every s
\* that does not contain both delimiters (and for every s whose result holds
\* no backslash); on any s a second application reaches a fixed point.
C3_IdempotentUnmixed ==
    Returned("cleanTestName") =>
        /\ (~Mixed(call.path) \/ "\\" \notin Range(call.ret))
              => cleanTestName(call.ret) = call.ret
        /\ cleanTestName(cleanTestName(call.ret)) = cleanTestName(call.ret)

C3_Witness ==
    /\ Returned("cleanTestName")
    /\ call.path = <<"a", "/", "b", "/">>
    /\ call.ret = <<"b">>

\* C4 as stated: on every input, mixed or not, cleanTestName returns the last
\* non-empty path segment, which contains neither delimiter, is non-empty when
\* the input has a non-delimiter character and is the input when the input
\* has no delimiter.
C4_LastSegment ==
    Returned("cleanTestName") =>
        /\ call.ret = LastSegment(call.path)
        /\ Range(call.ret) \cap Delimiters = {}
        /\ (Range(call.path) \ Delimiters # {} => call.ret # <<>>)
        /\ (Range(call.path) \cap Delimiters = {} => call.ret = call.path)
        /\ (call.path = <<>> => call.ret = <<>>)

\* C4 amended: on every input that does not contain both delimiters the
\* result is the last non-empty path segment and contains neither delimiter;
\* on every input the result contains no forward slash, is non-empty when the
\* input has a non-delimiter character, is the input when the input has no
\* delimiter, and is empty for the empty input.
C4_LastSegmentUnmixed ==
    Returned("cleanTestName") =>
        /\ ~Mixed(call.path) =>
              /\ call.ret = LastSegment(call.path)
              /\ Range(call.ret) \cap Delimiters = {}
        /\ "/" \notin Range(call.ret)
        /\ (Range(call.path) \ Delimiters # {} => call.ret # <<>>)
        /\ (Range(call.path) \cap Delimiters = {} => call.ret = call.path)
        /\ (call.path = <<>> => call.ret = <<>>)

C4_Witness ==
    /\ Returned("cleanTestName")
    /\ call.path = <<"a", "\\", "b", "\\">>
    /\ call.ret = <<"b">>

C6_Summary ==
    Returned("getSummary") =>
        LET n == Len(call.tests)
            name(i) == Str(call.tests[i].Name)
        IN  /\ n = 0 => call.ret = call.taskName \o " failure"
            /\ n > 4 => call.ret = call.taskName \o " failures"
            /\ n = 1 => call.ret = name(1)
            /\ n = 2 => call.ret = name(1) \o ", " \o name(2)
            /\ n = 3 => call.ret = name(1) \o ", " \o name(2) \o ", " \o name(3)
            /\ n = 4 => call.ret = name(1) \o ", " \o name(2) \o ", " \o name(3)
                                           \o ", " \o name(4)

C6_Witness ==
    /\ Returned("getSummary")
    /\ Len(call.tests) = 4
    /\ call.ret = "x, y, y, x"

\* C9: a successful getDescription output is the heading, then exactly one
\* line per FailureDetail record in input order carrying its Name, its URL as
\* Logs and its HistoryURL as History, then the attribution naming the user;
\* with no record there is no per-test line.
C9_Description ==
    (Returned("getDescription") /\ call.ret.err = Nil) =>
        LET d == call.ret.desc
            n == Len(call.tests)
            filled == {k \in 1..Len(d) : d[k] # ""}
        IN  /\ Len(d) = 2 * n + 8
            /\ filled = {2} \cup {2 + 2 * i : i \in 1..n} \cup {Len(d)}
            /\ d[2] = "h2. [" \o call.task.DisplayName \o " failed on "
                         \o call.task.BuildVariant
                         \o "|https://evergreen.mongodb.com/task/"
                         \o call.task.Id \o "]"
            /\ \A i \in 1..n :
                  d[2 + 2 * i] = "*" \o Str(call.tests[i].Name)
                                    \o "* - [Logs|" \o call.tests[i].URL
                                    \o "] | [History|" \o call.tests[i].HistoryURL
                                    \o "]"
            /\ d[Len(d)] = "~BF Ticket Generated by [~" \o call.userId \o "]~"

C9_Witness ==
    /\ Returned("getDescription")
    /\ call.ret.err = Nil
    /\ Len(call.tests) = 2
    /\ call.tests[1].Name = <<"y">>
    /\ call.tests[2].Name = <<"x">>
    /\ call.ret.desc[4] = "*y* - [Logs|u2] | [History|h2]"
    /\ call.ret.desc[6] = "*x* - [Logs|u1] | [History|h1]"

(***************************************************************************)
(* fileTicket: what the collaborators can hand to the handler.             *)
(***************************************************************************)
TestFiles == {<<"d", "/", "x">>, <<"x">>, <<"d", "\\", "y">>}
TaskIds == {"", "t1"}
Inputs == [TaskId : TaskIds, TestIds : SeqsUpTo(TestFiles, MaxSelected)]

\* the stored test results of a task: each has its raw identifier and a log URL
StoredResults ==
    {[i \in 1..Len(fs) |-> [TestFile |-> fs[i], URL |-> "u" \o ToString(i)]] :
        fs \in SeqsUpTo(TestFiles, MaxResults)}

StoredTask(id, results) ==
    [Id |-> id, DisplayName |-> "T", BuildVariant |-> "V", Project |-> "P",
     TestResults |-> results]

LookupErrors == {"db: connection refused"}
SubmitErrors == {"jira: 400 Bad Request", "jira: timeout"}
Tickets == {[Key |-> "BF-1"]}

Called(op, res) == [op |-> op, res |-> res]

\* plugin.WriteJSON(w, status, data): one response written to the caller
WriteJSON(w, status, data) == Append(w, [status |-> status, body |-> data])

(***************************************************************************)
(* fileTicket, lines 66-80: the failed tests to include.                   *)
(***************************************************************************)
\* faulty variant: the selection is matched on the normalized name
RECURSIVE CrossReferenceNormalized(_, _, _)
CrossReferenceNormalized(task, results, testIds) ==
    IF results = <<>> THEN <<>>
    ELSE LET test == Head(results)
             rest == CrossReferenceNormalized(task, Tail(results), testIds)
         IN  IF cleanTestName(test.TestFile) \in {cleanTestName(id) : id \in testIds}
             THEN <<[Name |-> cleanTestName(test.TestFile),
                     URL |-> test.URL,
                     HistoryURL |-> historyURL(task, cleanTestName(test.TestFile))]>>
                  \o rest
             ELSE rest

\* testIds is the key set of the map built from input.TestIds
RECURSIVE CrossReference(_, _, _)
CrossReference(task, results, testIds) ==
    IF results = <<>> THEN <<>>
    ELSE LET test == Head(results)
             rest == CrossReference(task, Tail(results), testIds)
         IN  IF test.TestFile \in testIds
             THEN <<[Name |-> cleanTestName(test.TestFile),
                     URL |-> test.URL,
                     HistoryURL |-> historyURL(task, cleanTestName(test.TestFile))]>>
                  \o rest
             ELSE rest

\* fileTicket, lines 83-90: the JIRA API request
TicketRequest(task, userId, failures, description) ==
    [project |-> [key |-> "BF"],
     summary |-> getSummary(task.DisplayName, failures),
     issuetype |-> [name |-> "Build Failure"],
     assignee |-> [name |-> userId],
     reporter |-> [name |-> userId],
     description |-> description]
        @@ (FailingTasksField :> <<task.DisplayName>>)

(***************************************************************************)
(* fileTicket: one action per step of the handler and outcome of the       *)
(* collaborator it calls.                                                  *)
(***************************************************************************)
\* line 48: the body decodes
DecodeOk ==
    /\ pc = "decode"
    /\ \E body \in Inputs : input' = body
    /\ decodeErr' = FALSE
    /\ log' = Append(log, Called("Decode", "ok"))
    /\ pc' = "getUser"
    /\ UNCHANGED <<u, t, err, tests, request, response, call>>

\* line 48: the body fails to decode; the error is dropped and input keeps
\* what was decoded before the failure (nothing, for a syntax error)
DecodeErr ==
    /\ pc = "decode"
    /\ \E body \in Inputs : input' = body
    /\ decodeErr' = TRUE
    /\ log' = Append(log, Called("Decode", "err"))
    /\ pc' = "getUser"
    /\ UNCHANGED <<u, t, err, tests, request, response, call>>

\* faulty variant: the response is written and the handler goes on
GetUserNilNoReturn ==
    /\ pc = "getUser"
    /\ u' = Nil
    /\ response' = WriteJSON(response, StatusUnauthorized,
                             "must be logged in to file a ticket")
    /\ log' = log \o <<Called("GetUser", "nil"), Called("WriteJSON", "ok")>>
    /\ pc' = "findTask"
    /\ UNCHANGED <<input, decodeErr, t, err, tests, request, call>>

\* lines 51-55: no user
GetUserNil ==
    /\ pc = "getUser"
    /\ u' = Nil
    /\ response' = WriteJSON(response, StatusUnauthorized,
                             "must be logged in to file a ticket")
    /\ log' = log \o <<Called("GetUser", "nil"), Called("WriteJSON", "ok")>>
    /\ pc' = "done"
    /\ UNCHANGED <<input, decodeErr, t, err, tests, request, call>>

\* lines 51-52: a user
GetUserOk ==
    /\ pc = "getUser"
    /\ \E id \in UserIds : u' = Ptr([Id |-> id])
    /\ log' = Append(log, Called("GetUser", "ok"))
    /\ pc' = "findTask"
    /\ UNCHANGED <<input, decodeErr, t, err, tests, request, response, call>>

\* faulty variant: no return after the error response, so the nil task is reported too
FindTaskErrFallsThrough ==
    /\ pc = "findTask"
    /\ \E e \in LookupErrors :
          /\ err' = Ptr(e)
          /\ response' = WriteJSON(
                 WriteJSON(response, StatusInternalServerError, e),
                 StatusNotFound, "task not found for id " \o input.TaskId)
    /\ t' = Nil
    /\ log' = log \o <<Called("FindTask", "err"), Called("WriteJSON", "ok"),
                       Called("WriteJSON", "ok")>>
    /\ pc' = "done"
    /\ UNCHANGED <<input, decodeErr, u, tests, request, call>>

\* lines 56-60: the lookup fails
FindTaskErr ==
    /\ pc = "findTask"
    /\ \E e \in LookupErrors :
          /\ err' = Ptr(e)
          /\ response' = WriteJSON(response, StatusInternalServerError, e)
    /\ t' = Nil
    /\ log' = log \o <<Called("FindTask", "err"), Called("WriteJSON", "ok")>>
    /\ pc' = "done"
    /\ UNCHANGED <<input, decodeErr, u, tests, request, call>>

\* faulty variant: a missing task is reported as a server error
FindTaskNilAsServerError ==
    /\ pc = "findTask"
    /\ err' = Nil
    /\ t' = Nil
    /\ response' = WriteJSON(response, StatusInternalServerError,
                             "task not found for id " \o input.TaskId)
    /\ log' = log \o <<Called("FindTask", "nil"), Called("WriteJSON", "ok")>>
    /\ pc' = "done"
    /\ UNCHANGED <<input, decodeErr, u, tests, request, call>>

\* lines 56, 61-64: the lookup finds no task
FindTaskNil ==
    /\ pc = "findTask"
    /\ err' = Nil
    /\ t' = Nil
    /\ response' = WriteJSON(response, StatusNotFound,
                             "task not found for id " \o input.TaskId)
    /\ log' = log \o <<Called("FindTask", "nil"), Called("WriteJSON", "ok")>>
    /\ pc' = "done"
    /\ UNCHANGED <<input, decodeErr, u, tests, request, call>>

\* line 56: the lookup finds the task
FindTaskOk ==
    /\ pc = "findTask"
    /\ err' = Nil
    /\ \E results \in StoredResults : t' = Ptr(StoredTask(input.TaskId, results))
    /\ log' = Append(log, Called("FindTask", "ok"))
    /\ pc' = "buildTests"
    /\ UNCHANGED <<input, decodeErr, u, tests, request, response, call>>

\* lines 66-80
BuildTests ==
    /\ pc = "buildTests"
    /\ tests' = CrossReference(Deref(t), Deref(t).TestResults, Range(input.TestIds))
    /\ log' = Append(log, Called("crossReference", "ok"))
    /\ pc' = "buildRequest"
    /\ UNCHANGED <<input, decodeErr, u, t, err, request, response, call>>

\* faulty variant: no return after the render error response
BuildRequestRenderErrNoReturn ==
    /\ pc = "buildRequest"
    /\ \E e \in ExecErrors \ {Nil} :
          LET d == getDescription(Deref(t), Deref(u).Id, tests, e)
          IN  /\ request' = TicketRequest(Deref(t), Deref(u).Id, tests, d.desc)
              /\ err' = d.err
              /\ response' = WriteJSON(response, StatusBadRequest,
                                "error creating description: " \o Deref(d.err))
    /\ log' = log \o <<Called("getSummary", "ok"), Called("getDescription", "err"),
                       Called("WriteJSON", "ok")>>
    /\ pc' = "createTicket"
    /\ UNCHANGED <<input, decodeErr, u, t, tests, call>>

\* lines 83-95: the description does not render
BuildRequestRenderErr ==
    /\ pc = "buildRequest"
    /\ \E e \in ExecErrors \ {Nil} :
          LET d == getDescription(Deref(t), Deref(u).Id, tests, e)
          IN  /\ request' = TicketRequest(Deref(t), Deref(u).Id, tests, d.desc)
              /\ err' = d.err
              /\ response' = WriteJSON(response, StatusBadRequest,
                                "error creating description: " \o Deref(d.err))
    /\ log' = log \o <<Called("getSummary", "ok"), Called("getDescription", "err"),
                       Called("WriteJSON", "ok")>>
    /\ pc' = "done"
    /\ UNCHANGED <<input, decodeErr, u, t, tests, call>>

\* lines 83-91: the description renders
BuildRequestOk ==
    /\ pc = "buildRequest"
    /\ LET d == getDescription(Deref(t), Deref(u).Id, tests, Nil)
       IN  /\ request' = TicketRequest(Deref(t), Deref(u).Id, tests, d.desc)
           /\ err' = d.err
    /\ log' = log \o <<Called("getSummary", "ok"), Called("getDescription", "ok")>>
    /\ pc' = "createTicket"
    /\ UNCHANGED <<input, decodeErr, u, t, tests, response, call>>

\* lines 97-110: the tracker refuses the ticket
CreateTicketErr ==
    /\ pc = "createTicket"
    /\ \E e \in SubmitErrors :
          /\ err' = Ptr(e)
          /\ response' = WriteJSON(response, StatusBadRequest,
                                   "error creating JIRA ticket: " \o e)
    /\ log' = log \o <<Called("CreateTicket", "err"), Called("WriteJSON", "ok")>>
    /\ pc' = "done"
    /\ UNCHANGED <<input, decodeErr, u, t, tests, request, call>>

\* lines 97-105, 111-112: the ticket is created
CreateTicketOk ==
    /\ pc = "createTicket"
    /\ err' = Nil
    /\ \E result \in Tickets : response' = WriteJSON(response, StatusOK, result)
    /\ log' = log \o <<Called("CreateTicket", "ok"), Called("WriteJSON", "ok")>>
    /\ pc' = "done"
    /\ UNCHANGED <<input, decodeErr, u, t, tests, request, call>>

Init == HandlerInit /\ call = NoCall

Next ==
    \/ DecodeOk
    \/ DecodeErr
    \/ GetUserNil
    \/ GetUserOk
    \/ FindTaskErr
    \/ FindTaskNil
    \/ FindTaskOk
    \/ BuildTests
    \/ BuildRequestRenderErr
    \/ BuildRequestOk
    \/ CreateTicketErr
    \/ CreateTicketOk

Spec == Init /\ [][Next]_vars

(***************************************************************************)
(* Claims about fileTicket.                                                *)
(***************************************************************************)
Count(op) == Cardinality({i \in 1..Len(log) : log[i].op = op})
Happened(op, res) == \E i \in 1..Len(log) : log[i] = Called(op, res)
PipelineOps == {"FindTask", "crossReference", "getSummary", "getDescription",
                "CreateTicket"}

\* C1: CreateTicket is attempted at most once, only after a successful
\* description rendering; an invocation with a user, a task and a rendered
\* description attempts it exactly once, and one ending in NotAuthenticated,
\* LookupFailure, TaskNotFound or RenderFailure never attempts it.
C1_SubmitOnceAfterRender ==
    /\ Count("CreateTicket") <= 1
    /\ \A i \in 1..Len(log) :
          log[i].op = "CreateTicket" =>
              \E j \in 1..(i - 1) : log[j] = Called("getDescription", "ok")
    /\ pc = "done" =>
          /\ (Happened("GetUser", "ok") /\ Happened("FindTask", "ok")
                /\ Happened("getDescription", "ok"))
                => Count("CreateTicket") = 1
          /\ (Happened("GetUser", "nil") \/ Happened("FindTask", "err")
                \/ Happened("FindTask", "nil") \/ Happened("getDescription", "err"))
                => Count("CreateTicket") = 0

C1_Witness ==
    /\ pc = "done"
    /\ Happened("getDescription", "ok")
    /\ Count("CreateTicket") = 1
    /\ log[Len(log) - 1].op = "CreateTicket"

\* C2: the FailureDetail list holds one record for exactly the stored test
\* results whose raw identifier is a selected identifier, in stored order
\* whatever the order of the selection; a selected identifier that matches
\* nothing adds nothing and writes no error.
C2_CrossReference ==
    Happened("crossReference", "ok") =>
        LET results == Deref(t).TestResults
            selected == Range(input.TestIds)
            idx == {i \in 1..Len(results) : results[i].TestFile \in selected}
            rank(i) == Cardinality({j \in idx : j <= i})
        IN  /\ Len(tests) = Cardinality(idx)
            /\ \A i \in idx :
                  /\ tests[rank(i)].URL = results[i].URL
                  /\ tests[rank(i)].Name = cleanTestName(results[i].TestFile)
            /\ pc = "buildRequest" => response = <<>>

C2_Witness ==
    /\ pc = "buildRequest"
    /\ input.TestIds = <<<<"d", "\\", "y">>, <<"d", "/", "x">>>>
    /\ Len(Deref(t).TestResults) = 3
    /\ Deref(t).TestResults[1].TestFile = <<"d", "/", "x">>
    /\ Deref(t).TestResults[2].TestFile = <<"x">>
    /\ Deref(t).TestResults[3].TestFile = <<"d", "\\", "y">>
    /\ Len(tests) = 2
    /\ tests[1].URL = "u1"
    /\ tests[2].URL = "u3"

\* C7: a lookup error ends in a server fault, a missing task in a not-found,
\* a render error in a bad request, a CreateTicket error in a caller-visible
\* failure carrying the collaborator's error, and only an invocation with
\* none of them ends in success with the created ticket.
C7_OutcomeClasses ==
    pc = "done" =>
        LET r == response[Len(response)]
        IN  /\ Happened("FindTask", "err") =>
                  /\ r.status = StatusInternalServerError
                  /\ r.body = Deref(err)
            /\ Happened("FindTask", "nil") =>
                  /\ r.status = StatusNotFound
                  /\ r.status # StatusInternalServerError
            /\ Happened("getDescription", "err") =>
                  /\ r.status = StatusBadRequest
                  /\ r.body = "error creating description: " \o Deref(err)
            /\ Happened("CreateTicket", "err") =>
                  /\ r.status = StatusBadRequest
                  /\ \E e \in SubmitErrors :
                        /\ err = Ptr(e)
                        /\ r.body = "error creating JIRA ticket: " \o e
            /\ r.status = StatusOK <=>
                  /\ Happened("GetUser", "ok")
                  /\ ~Happened("FindTask", "err")
                  /\ ~Happened("FindTask", "nil")
                  /\ ~Happened("getDescription", "err")
                  /\ ~Happened("CreateTicket", "err")
            /\ r.status = StatusOK => r.body \in Tickets

C7_Witness ==
    /\ pc = "done"
    /\ Happened("CreateTicket", "err")
    /\ response = <<[status |-> 400,
                     body |-> "error creating JIRA ticket: jira: timeout"]>>

\* C8: with no acting user the invocation ends in NotAuthenticated and the
\* task lookup, the cross-referencing, the summary, the description and
\* CreateTicket are never performed, whatever the request holds.
C8_NotAuthenticatedFirst ==
    Happened("GetUser", "nil") =>
        /\ \A i \in 1..Len(log) : log[i].op \notin PipelineOps
        /\ t = Nil
        /\ tests = <<>>
        /\ DOMAIN request = {}
        /\ Len(response) >= 1
        /\ response[1].status = StatusUnauthorized

C8_Witness ==
    /\ pc = "done"
    /\ Happened("GetUser", "nil")
    /\ input.TaskId = "t1"
    /\ Len(input.TestIds) = 2
    /\ response[1].status = 401

\* C10: every invocation writes exactly one response: none before the
\* handler returns on any path, one when it has returned, never a second,
\* and the handler never stops before it has returned, also when the body
\* failed to decode.
C10_OneResponse ==
    /\ Len(response) = Count("WriteJSON")
    /\ pc = "done" => Len(response) = 1
    /\ pc # "done" => (Len(response) = 0 /\ ENABLED Next)

C10_Witness ==
    /\ pc = "done"
    /\ decodeErr
    /\ input = NoInput
    /\ Len(response) = 1
    /\ response[1].status = 404

====
